---- MODULE Spec2Model ----
(***************************************************************************)
(* Model of streamlit_dann_app.py: a Streamlit script that is re-executed  *)
(* from top to bottom on every user interaction.  One action = one         *)
(* interaction followed by the complete script run it triggers.            *)
(*                                                                         *)
(* Values.  A cell of a DataFrame is NaN (missing) or Val(x).  Text cells  *)
(* hold the token read from the file, numeric cells hold integers.  A      *)
(* script variable is Unbound (not assigned in this run) or Bound(x).      *)
(* A float that is a quotient is kept exact as [num, den].                 *)
(***************************************************************************)
EXTENDS Integers, Sequences, FiniteSets, TLC

\* Largest number of data rows in an uploaded file.
MaxRows == 2

NaN == <<>>
Val(x) == <<x>>
Unbound == <<>>
Bound(x) == <<x>>
NoFile == [kind |-> "none"]

Max(a, b) == IF a >= b THEN a ELSE b

(***************************************************************************)
(* Built-in sample table                                                   *)
(***************************************************************************)
Row4(h, k, a, b) ==
    [Hari |-> Val(h), Kategori |-> Val(k), Penjualan |-> Val(a), Pengunjung |-> Val(b)]

SampleColumns == <<"Hari", "Kategori", "Penjualan", "Pengunjung">>

\* Mutant: one literal of the table is mistyped.
SampleData_Typo ==
    [columns |-> SampleColumns,
     rows |-> << Row4("Senin",  "Makanan", 120, 50),
                 Row4("Selasa", "Minuman", 150, 60),
                 Row4("Rabu",   "Makanan", 90,  30),
                 Row4("Kamis",  "Minuman", 170, 80),
                 Row4("Jumat",  "Makanan", 200, 90),
                 Row4("Sabtu",  "Minuman", 220, 100),
                 Row4("Minggu", "Makanan", 180, 100) >>]

SampleData ==
    [columns |-> SampleColumns,
     rows |-> << Row4("Senin",  "Makanan", 120, 50),
                 Row4("Selasa", "Minuman", 150, 60),
                 Row4("Rabu",   "Makanan", 90,  30),
                 Row4("Kamis",  "Minuman", 170, 80),
                 Row4("Jumat",  "Makanan", 200, 90),
                 Row4("Sabtu",  "Minuman", 220, 120),
                 Row4("Minggu", "Makanan", 180, 100) >>]

\* Mutant: the cache hands out a frame that lost its first row.
load_sample_data_Stale(c) ==
    IF c = Unbound THEN SampleData ELSE [c[1] EXCEPT !.rows = Tail(c[1].rows)]

\* @st.cache_data: the first call runs the body and stores the result, later
\* calls return a fresh copy of the stored value.  c is the cache content.
load_sample_data(c) == IF c = Unbound THEN SampleData ELSE c[1]

(***************************************************************************)
(* pd.read_csv on an uploaded file.  A file is                             *)
(*   [kind: "csv", decodable, header: Seq(token), lines: Seq(Seq(token))]. *)
(***************************************************************************)
\* Tokens that read_csv turns into a missing value.
na_values == {""}

NumericTokens == {"30", "50", "60", "80", "120", "150"}

\* Text of an integer field -> the integer.
to_numeric(t) ==
    CASE t = "30" -> 30 [] t = "50" -> 50 [] t = "60" -> 60
      [] t = "80" -> 80 [] t = "120" -> 120 [] t = "150" -> 150

NumericColumns == {"Penjualan", "Pengunjung"}

\* Field count every data line is held to: that of the header, or of the
\* first data line when that one is longer.
expected_fields(f) ==
    IF Len(f.lines) = 0 THEN Len(f.header)
    ELSE Max(Len(f.header), Len(f.lines[1]))

\* Surplus fields of the first data line become an implicit index.
leading_cols(f) == expected_fields(f) - Len(f.header)

\* "ok" or the exception read_csv raises.
read_csv_error(f) ==
    IF ~f.decodable THEN "UnicodeDecodeError"
    ELSE IF Len(f.header) = 0 THEN "EmptyDataError"
    ELSE IF \E i \in 2..Len(f.lines) : Len(f.lines[i]) > expected_fields(f)
         THEN "ParserError"
    ELSE "ok"

parse_cell(col, line, pos) ==
    IF pos > Len(line) THEN NaN
    ELSE IF line[pos] \in na_values THEN NaN
    ELSE IF col \in NumericColumns THEN Val(to_numeric(line[pos]))
    ELSE Val(line[pos])

ColPos(cols, c) == CHOOSE j \in 1..Len(cols) : cols[j] = c

ColSet(cols) == {cols[j] : j \in 1..Len(cols)}

read_csv(f) ==
    [columns |-> f.header,
     rows |-> [i \in 1..Len(f.lines) |->
                 [c \in ColSet(f.header) |->
                    parse_cell(c, f.lines[i], leading_cols(f) + ColPos(f.header, c))]]]

(***************************************************************************)
(* pandas operations used by the script                                    *)
(***************************************************************************)
HasColumn(d, c) == c \in ColSet(d.columns)

\* df[c]: the column as a sequence of cells.
Col(d, c) == [i \in 1..Len(d.rows) |-> d.rows[i][c]]

RECURSIVE TakeIdx(_, _, _)
TakeIdx(s, keep, i) ==
    IF i > Len(s) THEN <<>>
    ELSE (IF i \in keep THEN <<s[i]>> ELSE <<>>) \o TakeIdx(s, keep, i + 1)

\* Series.unique().tolist(): distinct values, NaN included, by first occurrence.
unique(s) ==
    TakeIdx(s, {i \in 1..Len(s) : \A j \in 1..(i - 1) : s[j] # s[i]}, 1)

\* Series.isin(values): boolean mask; NaN matches a NaN among the values.
isin(s, values) == [i \in 1..Len(s) |-> s[i] \in values]

\* df[mask]: the rows whose mask entry is true, in the order of df.
mask_rows(d, mask) ==
    [columns |-> d.columns,
     rows |-> TakeIdx(d.rows, {i \in 1..Len(d.rows) : mask[i]}, 1)]

\* Mutant: the first cell is left out of the sum.
RECURSIVE series_sum_SkipFirst(_)
series_sum_SkipFirst(s) ==
    IF Len(s) <= 1 THEN 0
    ELSE (IF s[2] = NaN THEN 0 ELSE s[2][1]) + series_sum_SkipFirst(Tail(s))

RECURSIVE series_sum(_)
\* Series.sum(): missing values are skipped, the empty sum is 0.
series_sum(s) ==
    IF Len(s) = 0 THEN 0
    ELSE (IF s[1] = NaN THEN 0 ELSE s[1][1]) + series_sum(Tail(s))

\* Series.count(): number of non-missing cells.
series_count(s) == Cardinality({i \in 1..Len(s) : s[i] # NaN})

\* Mutant: the mean divides by the length, missing cells included.
series_mean_ByLength(s) == [num |-> series_sum(s), den |-> Len(s)]

\* Series.mean(): sum over count of the non-missing cells; 0/0 is nan.
series_mean(s) == [num |-> series_sum(s), den |-> series_count(s)]

is_nan(m) == m.den = 0

\* Code-point order of the text values.
TokenOrder ==
    <<"120", "150", "30", "50", "60", "7", "80", "Jumat", "Kamis", "Makanan",
      "Minggu", "Minuman", "Rabu", "Sabtu", "Selasa", "Senin">>

Rank(t) == CHOOSE j \in 1..Len(TokenOrder) : TokenOrder[j] = t

RECURSIVE sort_keys(_)
sort_keys(S) ==
    IF S = {} THEN <<>>
    ELSE LET m == CHOOSE x \in S : \A y \in S : Rank(x) <= Rank(y)
         IN <<m>> \o sort_keys(S \ {m})

\* Mutant: the groups are taken in order of first occurrence, unsorted.
group_keys_Unsorted(d, key) ==
    LET u == unique(Col(d, key))
        v == TakeIdx(u, {i \in 1..Len(u) : u[i] # NaN}, 1)
    IN [n \in 1..Len(v) |-> v[n][1]]

\* The group keys of df.groupby(key): the non-missing key values, sorted.
group_keys(d, key) ==
    sort_keys({d.rows[i][key][1] : i \in {j \in 1..Len(d.rows) : d.rows[j][key] # NaN}})

\* Mutant: a group's total is taken over all rows.
groupby_sum_AllRows(d, key, col) ==
    LET ks == group_keys(d, key)
    IN [n \in 1..Len(ks) |-> [key |-> ks[n], total |-> series_sum(Col(d, col))]]

\* df.groupby(key)[col].sum(): one entry per group key, in key order.
groupby_sum(d, key, col) ==
    LET ks == group_keys(d, key)
    IN [n \in 1..Len(ks) |->
          [key |-> ks[n],
           total |-> series_sum(Col(mask_rows(d, isin(Col(d, key), {Val(ks[n])})), col))]]

\* A column read with a missing cell is float64.
is_float(d, c) == \E i \in 1..Len(d.rows) : d.rows[i][c] = NaN

to_text(n) ==
    CASE n = 30 -> "30" [] n = 50 -> "50" [] n = 60 -> "60" [] n = 80 -> "80"
      [] n = 90 -> "90" [] n = 100 -> "100" [] n = 120 -> "120" [] n = 150 -> "150"
      [] n = 170 -> "170" [] n = 180 -> "180" [] n = 200 -> "200" [] n = 220 -> "220"

csv_cell(d, all, c, i) ==
    LET v == d.rows[i][c]
        numeric == c \in NumericColumns
                   \/ \A k \in 1..Len(all.rows) :
                        all.rows[k][c] = NaN \/ all.rows[k][c][1] \in NumericTokens
    IN IF v = NaN THEN ""
       ELSE LET t == IF c \in NumericColumns THEN to_text(v[1]) ELSE v[1]
            IN IF numeric /\ is_float(all, c) THEN t \o ".0" ELSE t

\* filtered.to_csv(index=False): header line, then one line per row; all is
\* the frame the rows were taken from (it fixes the column dtypes).
to_csv(d, all) ==
    [header |-> d.columns,
     lines |-> [i \in 1..Len(d.rows) |->
                  [j \in 1..Len(d.columns) |-> csv_cell(d, all, d.columns[j], i)]]]

\* f"{x}" of a column total: an int64 total prints n, a float64 one n.0.
format_total(d, c, n) == [float |-> is_float(d, c), n |-> n]

\* f"{m:.1f}": "nan", or the value rounded half-even to tenths.
format_1f(m) ==
    IF is_nan(m) THEN [nan |-> TRUE, tenths |-> 0]
    ELSE LET q == (10 * m.num) \div m.den
             r == (10 * m.num) % m.den
         IN [nan |-> FALSE,
             tenths |-> IF 2 * r < m.den THEN q
                        ELSE IF 2 * r > m.den THEN q + 1
                        ELSE IF q % 2 = 0 THEN q ELSE q + 1]

SeqSet(s) == {s[i] : i \in 1..Len(s)}

\* The session's widget state for one multiselect call: a store keyed by
\* widget id.  Without a key the id is computed from the label, the options
\* and the default, so for one call it is the options list; the store is a
\* set of entries [options, value], at most one per options list.
NoState == {}

Stored(w, options) == \E e \in w : e.options = options

Put(w, options, value) ==
    {e \in w : e.options # options} \cup {[options |-> options, value |-> value]}

\* Mutant: a stored value is used whatever the options are.
multiselect_Stale(w, options) ==
    IF w # NoState THEN (CHOOSE e \in w : TRUE).value ELSE SeqSet(options)

\* st.multiselect(label, options, default=options): the value stored under
\* this widget's id, or the default, all options, when the widget is new.
multiselect(w, options) ==
    IF Stored(w, options) THEN (CHOOSE e \in w : e.options = options).value
    ELSE SeqSet(options)

(***************************************************************************)
(* The files a user can upload                                             *)
(***************************************************************************)
Headers ==
    { <<"Hari", "Kategori", "Penjualan", "Pengunjung">>,
      <<"Hari", "Penjualan", "Pengunjung">>,
      <<"Kategori", "Penjualan", "Pengunjung">>,
      <<"Hari", "Kategori", "Pengunjung">>,
      <<"Hari", "Kategori", "Penjualan">> }

Fields(rec, header) == [j \in 1..Len(header) |-> rec[header[j]]]

\* Records a file line is written from; "" is an empty field.
Records ==
    { [Hari |-> "Selasa", Kategori |-> "Minuman", Penjualan |-> "150", Pengunjung |-> "60"],
      [Hari |-> "Senin",  Kategori |-> "Makanan", Penjualan |-> "120", Pengunjung |-> "50"],
      [Hari |-> "Senin",  Kategori |-> "",        Penjualan |-> "150", Pengunjung |-> "30"],
      [Hari |-> "Rabu",   Kategori |-> "Makanan", Penjualan |-> "",    Pengunjung |-> "80"] }

\* full: one field per header column; short: the last field is missing;
\* long: one extra field in front.
RawLine(rec, shape, header) ==
    CASE shape = "full"  -> Fields(rec, header)
      [] shape = "short" -> SubSeq(Fields(rec, header), 1, Len(header) - 1)
      [] shape = "long"  -> <<"7">> \o Fields(rec, header)

Senin120 == [Hari |-> "Senin", Kategori |-> "Makanan", Penjualan |-> "120", Pengunjung |-> "50"]
Selasa150 == [Hari |-> "Selasa", Kategori |-> "Minuman", Penjualan |-> "150", Pengunjung |-> "60"]

\* The lines a file is made of.
Lines == (Records \X {"full"}) \cup {<<Senin120, "short">>, <<Selasa150, "long">>}

CsvFile(header, lines) ==
    [kind |-> "csv", decodable |-> TRUE, header |-> header, lines |-> lines]

\* Bytes that are not valid UTF-8, and a file of zero bytes.
UndecodableFile == [kind |-> "csv", decodable |-> FALSE, header |-> <<>>, lines |-> <<>>]
EmptyFile == CsvFile(<<>>, <<>>)

UploadFiles ==
    {UndecodableFile, EmptyFile} \cup
    UNION { { CsvFile(h, [i \in 1..n |-> RawLine(ls[i][1], ls[i][2], h)]) :
                ls \in [1..n -> Lines] } :
            h \in Headers, n \in 0..MaxRows }

FullHeader == <<"Hari", "Kategori", "Penjualan", "Pengunjung">>
SeninNoKategori == [Hari |-> "Senin", Kategori |-> "", Penjualan |-> "150", Pengunjung |-> "30"]
RabuNoPenjualan == [Hari |-> "Rabu", Kategori |-> "Makanan", Penjualan |-> "", Pengunjung |-> "80"]

FileOf(header, ls) == CsvFile(header, [i \in 1..Len(ls) |-> RawLine(ls[i][1], ls[i][2], header)])

\* The files uploaded in the course of one session.
SessionFiles ==
    { UndecodableFile,
      FileOf(FullHeader, << <<Selasa150, "full">>, <<Senin120, "full">> >>),
      FileOf(FullHeader, << <<Selasa150, "full">>, <<SeninNoKategori, "full">> >>),
      FileOf(FullHeader, << <<Senin120, "full">>, <<Selasa150, "long">> >>),
      FileOf(<<"Hari", "Penjualan", "Pengunjung">>, << <<Selasa150, "long">>, <<RabuNoPenjualan, "full">> >>),
      FileOf(<<"Kategori", "Penjualan", "Pengunjung">>, << <<Selasa150, "full">> >>),
      FileOf(<<"Hari", "Kategori", "Pengunjung">>, << <<Selasa150, "full">>, <<Senin120, "full">> >>) }

(***************************************************************************)
(* One execution of the script, lines 36-143                               *)
(***************************************************************************)
Ok == [exc |-> "none", line |-> 0]
Raised(e, l) == [exc |-> e, line |-> l]

Blank ==
    [status |-> Ok, df |-> Unbound, selected_hari |-> Unbound,
     selected_kategori |-> Unbound, filtered_df |-> Unbound, csv |-> Unbound,
     total_sales |-> Unbound, total_visitors |-> Unbound, avg_sales |-> Unbound,
     avg_visitors |-> Unbound, metrics |-> Unbound, pie_df |-> Unbound]

\* Mutant: a failed read falls back to the built-in table.
LoadData_Fallback(file, c) ==
    IF file # NoFile /\ read_csv_error(file) = "ok"
    THEN [Blank EXCEPT !.df = Bound(read_csv(file))]
    ELSE [Blank EXCEPT !.df = Bound(load_sample_data(c))]

\* Lines 49-54.
LoadData(file, c) ==
    IF file # NoFile
    THEN IF read_csv_error(file) # "ok"
         THEN [Blank EXCEPT !.status = Raised(read_csv_error(file), 50)]
         ELSE [Blank EXCEPT !.df = Bound(read_csv(file))]
    ELSE [Blank EXCEPT !.df = Bound(load_sample_data(c))]

\* Mutant: the category filter is not applied.
ApplyFilter_DayOnly(d, days, cats) == mask_rows(d, isin(Col(d, "Hari"), days))

\* Lines 59-71: the two filters and the filtered frame.
ApplyFilter(d, days, cats) ==
    LET byDay == mask_rows(d, isin(Col(d, "Hari"), days))
    IN IF HasColumn(d, "Kategori")
       THEN mask_rows(byDay, isin(Col(byDay, "Kategori"), cats))
       ELSE byDay

Filters(r, wh, wk) ==
    LET d == r.df[1]
    IN IF ~HasColumn(d, "Hari") THEN [r EXCEPT !.status = Raised("KeyError", 59)]
       ELSE LET hari_list == unique(Col(d, "Hari"))
                days == multiselect(wh, hari_list)
                cats == IF HasColumn(d, "Kategori")
                        THEN multiselect(wk, unique(Col(d, "Kategori")))
                        ELSE {}
                f == ApplyFilter(d, days, cats)
            IN [r EXCEPT !.selected_hari = Bound(days),
                         !.selected_kategori = Bound(cats),
                         !.filtered_df = Bound(f),
                         !.csv = Bound(to_csv(f, d))]

\* Mutant: a missing numeric column counts as a column of zeros.
Kpi_Defaulting(r) ==
    LET d == r.df[1]
        f == r.filtered_df[1]
        ts == IF HasColumn(d, "Penjualan") THEN series_sum(Col(f, "Penjualan")) ELSE 0
        tv == IF HasColumn(d, "Pengunjung") THEN series_sum(Col(f, "Pengunjung")) ELSE 0
        avgS == IF HasColumn(d, "Penjualan") THEN series_mean(Col(f, "Penjualan"))
                ELSE [num |-> 0, den |-> 0]
        avgV == IF HasColumn(d, "Pengunjung") THEN series_mean(Col(f, "Pengunjung"))
                ELSE [num |-> 0, den |-> 0]
    IN [r EXCEPT !.total_sales = Bound(ts),
                 !.total_visitors = Bound(tv),
                 !.avg_sales = Bound(avgS),
                 !.avg_visitors = Bound(avgV),
                 !.metrics = Bound(<<[float |-> FALSE, n |-> ts], [float |-> FALSE, n |-> tv],
                                     format_1f(avgS), format_1f(avgV)>>)]

\* Lines 89-98.
Kpi(r) ==
    LET d == r.df[1]
        f == r.filtered_df[1]
    IN IF ~HasColumn(d, "Penjualan") THEN [r EXCEPT !.status = Raised("KeyError", 89)]
       ELSE IF ~HasColumn(d, "Pengunjung")
            THEN [r EXCEPT !.total_sales = Bound(series_sum(Col(f, "Penjualan"))),
                           !.status = Raised("KeyError", 90)]
       ELSE LET ts == series_sum(Col(f, "Penjualan"))
                tv == series_sum(Col(f, "Pengunjung"))
                avgS == series_mean(Col(f, "Penjualan"))
                avgV == series_mean(Col(f, "Pengunjung"))
            IN [r EXCEPT !.total_sales = Bound(ts),
                         !.total_visitors = Bound(tv),
                         !.avg_sales = Bound(avgS),
                         !.avg_visitors = Bound(avgV),
                         !.metrics = Bound(<<format_total(d, "Penjualan", ts),
                                             format_total(d, "Pengunjung", tv),
                                             format_1f(avgS), format_1f(avgV)>>)]

\* A column read from text is of object dtype when one of its cells is
\* neither missing nor the text of a number; its cells are then str or nan.
is_object(d, c) ==
    \E i \in 1..Len(d.rows) : d.rows[i][c] # NaN /\ d.rows[i][c][1] \notin NumericTokens

\* ax.plot(x, ...) for x = filtered_df["Hari"]: an x holding a str gets a
\* category axis, which accepts str only and raises TypeError on a nan.
plot_raises(d, f) ==
    /\ is_object(d, "Hari")
    /\ \E i \in 1..Len(f.rows) : f.rows[i]["Hari"] = NaN
    /\ \E i \in 1..Len(f.rows) : f.rows[i]["Hari"] # NaN

\* Lines 110-133: the line chart and the bar chart.
Charts(r) ==
    IF plot_raises(r.df[1], r.filtered_df[1])
    THEN [r EXCEPT !.status = Raised("TypeError", 114)]
    ELSE r

RECURSIVE wedge_sum(_)
wedge_sum(g) == IF Len(g) = 0 THEN 0 ELSE g[1].total + wedge_sum(Tail(g))

\* ax.pie(x, ...): the wedges are x / sum(x); with wedges and a sum of 0
\* they are nan and building the first wedge raises ValueError.
pie_raises(g) == Len(g) > 0 /\ wedge_sum(g) = 0

\* Lines 135-145.
Pie(r) ==
    IF HasColumn(r.df[1], "Kategori")
    THEN LET g == groupby_sum(r.filtered_df[1], "Kategori", "Penjualan")
         IN [r EXCEPT !.pie_df = Bound(g),
                      !.status = IF pie_raises(g) THEN Raised("ValueError", 141) ELSE Ok]
    ELSE r

\* Lines 36-145; the statements after them (the data tab and the info tab)
\* assign no variable and are taken not to raise.
Script(file, c, wh, wk) ==
    LET r1 == LoadData(file, c)
        r2 == IF r1.status = Ok THEN Filters(r1, wh, wk) ELSE r1
        r3 == IF r2.status = Ok THEN Kpi(r2) ELSE r2
        r4 == IF r3.status = Ok THEN Charts(r3) ELSE r3
    IN IF r4.status = Ok THEN Pie(r4) ELSE r4

(***************************************************************************)
(* State: what outlives a run (the uploader's file, the st.cache_data      *)
(* store, the session's widget state) and the variables of the last run.   *)
(***************************************************************************)
VARIABLES uploaded_file, cache, w_hari, w_kategori,
          status, df, selected_hari, selected_kategori, filtered_df, csv,
          total_sales, total_visitors, avg_sales, avg_visitors, metrics, pie_df

session == <<uploaded_file, cache, w_hari, w_kategori>>
outputs == <<status, df, selected_hari, selected_kategori, filtered_df, csv,
             total_sales, total_visitors, avg_sales, avg_visitors, metrics, pie_df>>
vars == <<uploaded_file, cache, w_hari, w_kategori,
          status, df, selected_hari, selected_kategori, filtered_df, csv,
          total_sales, total_visitors, avg_sales, avg_visitors, metrics, pie_df>>

NotRun == [exc |-> "not run", line |-> 0]

Init ==
    /\ uploaded_file = NoFile
    /\ cache = Unbound
    /\ w_hari = NoState
    /\ w_kategori = NoState
    /\ status = NotRun
    /\ df = Unbound
    /\ selected_hari = Unbound
    /\ selected_kategori = Unbound
    /\ filtered_df = Unbound
    /\ csv = Unbound
    /\ total_sales = Unbound
    /\ total_visitors = Unbound
    /\ avg_sales = Unbound
    /\ avg_visitors = Unbound
    /\ metrics = Unbound
    /\ pie_df = Unbound

\* The cache after the run: filled by the first call of load_sample_data.
CacheAfter(file, c) == IF file = NoFile /\ c = Unbound THEN Bound(SampleData) ELSE c

\* Widget state after the run.  A widget the run rendered has its value
\* stored under its id.  A run that completed removes the entries of the
\* ids it did not render; a run that stopped on an exception removes none.
WidgetAfter(w, rendered, options, value, st) ==
    LET kept == IF st = Ok THEN NoState ELSE w
    IN IF rendered THEN Put(kept, options, value) ELSE kept

\* A full run of the script with the given file and widget state.
Rerun(file, wh, wk) ==
    \E r \in {Script(file, cache, wh, wk)} :
    LET hariShown == r.selected_hari # Unbound
        katShown == r.selected_kategori # Unbound /\ HasColumn(r.df[1], "Kategori")
    IN /\ uploaded_file' = file
       /\ cache' = CacheAfter(file, cache)
       /\ w_hari' = WidgetAfter(wh, hariShown,
                                IF hariShown THEN unique(Col(r.df[1], "Hari")) ELSE <<>>,
                                IF hariShown THEN r.selected_hari[1] ELSE {}, r.status)
       /\ w_kategori' = WidgetAfter(wk, katShown,
                                    IF katShown THEN unique(Col(r.df[1], "Kategori")) ELSE <<>>,
                                    IF katShown THEN r.selected_kategori[1] ELSE {}, r.status)
       /\ status' = r.status
       /\ df' = r.df
       /\ selected_hari' = r.selected_hari
       /\ selected_kategori' = r.selected_kategori
       /\ filtered_df' = r.filtered_df
       /\ csv' = r.csv
       /\ total_sales' = r.total_sales
       /\ total_visitors' = r.total_visitors
       /\ avg_sales' = r.avg_sales
       /\ avg_visitors' = r.avg_visitors
       /\ metrics' = r.metrics
       /\ pie_df' = r.pie_df

\* The page is opened: first run, nothing uploaded.
Connect ==
    /\ status = NotRun
    /\ Rerun(uploaded_file, w_hari, w_kategori)

\* The user puts a file into the uploader.
Upload(f) ==
    /\ status # NotRun
    /\ f # uploaded_file
    /\ Rerun(f, w_hari, w_kategori)

\* The user removes the uploaded file.
RemoveUpload ==
    /\ status # NotRun
    /\ uploaded_file # NoFile
    /\ Rerun(NoFile, w_hari, w_kategori)

HariOnPage == selected_hari # Unbound
KategoriOnPage == selected_kategori # Unbound /\ HasColumn(df[1], "Kategori")

\* The options of the multiselects the last run put on the page.
HariOptions == IF HariOnPage THEN unique(Col(df[1], "Hari")) ELSE <<>>
KategoriOptions == IF KategoriOnPage THEN unique(Col(df[1], "Kategori")) ELSE <<>>

\* The user changes the day multiselect.
ChangeDays(S) ==
    /\ HariOnPage
    /\ S # selected_hari[1]
    /\ Rerun(uploaded_file, Put(w_hari, HariOptions, S), w_kategori)

\* The user changes the category multiselect.
ChangeCategories(S) ==
    /\ KategoriOnPage
    /\ S # selected_kategori[1]
    /\ Rerun(uploaded_file, w_hari, Put(w_kategori, KategoriOptions, S))

\* The user clicks the download button: a run with nothing changed.
ClickDownload ==
    /\ csv # Unbound
    /\ Rerun(uploaded_file, w_hari, w_kategori)

\* The selections a user makes in one session: at most MaxToggle options
\* picked, or at most MaxToggle options removed from the full selection.
MaxToggle == 1

Picks(options) ==
    {S \in SUBSET SeqSet(options) :
        Cardinality(S) <= MaxToggle \/ Cardinality(SeqSet(options) \ S) <= MaxToggle}

Next ==
    \/ Connect
    \/ \E f \in SessionFiles : Upload(f)
    \/ RemoveUpload
    \/ \E S \in Picks(HariOptions) : ChangeDays(S)
    \/ \E S \in Picks(KategoriOptions) : ChangeCategories(S)
    \/ ClickDownload

Spec == Init /\ [][Next]_vars

\* The pipeline on every file: the session starts with the file in the
\* uploader, and the first run already reads it.
InitPipeline ==
    /\ uploaded_file \in UploadFiles \cup {NoFile}
    /\ cache = Unbound
    /\ w_hari = NoState
    /\ w_kategori = NoState
    /\ status = NotRun
    /\ df = Unbound
    /\ selected_hari = Unbound
    /\ selected_kategori = Unbound
    /\ filtered_df = Unbound
    /\ csv = Unbound
    /\ total_sales = Unbound
    /\ total_visitors = Unbound
    /\ avg_sales = Unbound
    /\ avg_visitors = Unbound
    /\ metrics = Unbound
    /\ pie_df = Unbound

NextPipeline ==
    \/ Connect
    \/ RemoveUpload
    \/ \E S \in SUBSET SeqSet(HariOptions) : ChangeDays(S)
    \/ \E S \in SUBSET SeqSet(KategoriOptions) : ChangeCategories(S)
    \/ ClickDownload

PipelineSpec == InitPipeline /\ [][NextPipeline]_vars


(***************************************************************************)
(* Properties                                                              *)
(***************************************************************************)
\* Indices of the rows of df that the current selection admits.
AdmittedIdx ==
    {i \in 1..Len(df[1].rows) :
        /\ df[1].rows[i]["Hari"] \in selected_hari[1]
        /\ (~HasColumn(df[1], "Kategori")
            \/ df[1].rows[i]["Kategori"] \in selected_kategori[1])}

\* The n-th smallest element of a set of indices.
NthOf(S, n) == CHOOSE i \in S : Cardinality({j \in S : j <= i}) = n

RECURSIVE SumOver(_, _, _)
\* Sum of the non-missing cells of column c over the rows at the indices S.
SumOver(rows, S, c) ==
    IF S = {} THEN 0
    ELSE LET i == CHOOSE k \in S : TRUE
         IN (IF rows[i][c] = NaN THEN 0 ELSE rows[i][c][1]) + SumOver(rows, S \ {i}, c)

AllSampleDays ==
    {Val("Senin"), Val("Selasa"), Val("Rabu"), Val("Kamis"), Val("Jumat"),
     Val("Sabtu"), Val("Minggu")}

SampleMinumanOnly ==
    /\ uploaded_file = NoFile
    /\ filtered_df # Unbound
    /\ selected_hari[1] = AllSampleDays
    /\ selected_kategori[1] = {Val("Minuman")}

\* C1: the filtered rows are exactly the rows of the dataset whose day is
\* selected and whose category (when the column exists) is selected, in the
\* order of the dataset, each once; on the sample with all days and only
\* Minuman they are Selasa, Kamis, Sabtu and the sales total is 540.
C1_FilterExact ==
    filtered_df # Unbound =>
        /\ filtered_df[1].columns = df[1].columns
        /\ Len(filtered_df[1].rows) = Cardinality(AdmittedIdx)
        /\ \A n \in 1..Len(filtered_df[1].rows) :
              filtered_df[1].rows[n] = df[1].rows[NthOf(AdmittedIdx, n)]
        /\ SampleMinumanOnly =>
              /\ [n \in 1..Len(filtered_df[1].rows) |-> filtered_df[1].rows[n]["Hari"]]
                    = <<Val("Selasa"), Val("Kamis"), Val("Sabtu")>>
              /\ total_sales = Bound(540)

C1_Witness ==
    /\ SampleMinumanOnly
    /\ Len(filtered_df[1].rows) = 3
    /\ total_sales = Bound(540)

\* C5: each total is the sum of its column over exactly the filtered rows;
\* no filtered row gives 0; the whole sample gives 1130 and 530.
C5_Totals ==
    (total_sales # Unbound /\ total_visitors # Unbound) =>
        /\ total_sales[1] = SumOver(df[1].rows, AdmittedIdx, "Penjualan")
        /\ total_visitors[1] = SumOver(df[1].rows, AdmittedIdx, "Pengunjung")
        /\ AdmittedIdx = {} => (total_sales[1] = 0 /\ total_visitors[1] = 0)
        /\ (uploaded_file = NoFile /\ Len(filtered_df[1].rows) = 7) =>
              (total_sales[1] = 1130 /\ total_visitors[1] = 530)

C5_Witness ==
    /\ uploaded_file # NoFile
    /\ total_sales # Unbound
    /\ total_visitors # Unbound
    /\ Len(filtered_df[1].rows) = 1
    /\ Len(df[1].rows) = 2
    /\ total_sales[1] > 0

\* The built-in table as (day, category, sales, visitors) tuples.
FrameTuples(d) ==
    [i \in 1..Len(d.rows) |->
        <<d.rows[i]["Hari"], d.rows[i]["Kategori"],
          d.rows[i]["Penjualan"], d.rows[i]["Pengunjung"]>>]

\* C2: in every run without an upload the dataset is the built-in table:
\* four columns and the seven literal rows, in order.
C2_SampleTable ==
    (status # NotRun /\ uploaded_file = NoFile) =>
        /\ df # Unbound
        /\ df[1].columns = <<"Hari", "Kategori", "Penjualan", "Pengunjung">>
        /\ FrameTuples(df[1]) =
              << <<Val("Senin"),  Val("Makanan"), Val(120), Val(50)>>,
                 <<Val("Selasa"), Val("Minuman"), Val(150), Val(60)>>,
                 <<Val("Rabu"),   Val("Makanan"), Val(90),  Val(30)>>,
                 <<Val("Kamis"),  Val("Minuman"), Val(170), Val(80)>>,
                 <<Val("Jumat"),  Val("Makanan"), Val(200), Val(90)>>,
                 <<Val("Sabtu"),  Val("Minuman"), Val(220), Val(120)>>,
                 <<Val("Minggu"), Val("Makanan"), Val(180), Val(100)>> >>

\* A later run on the sample, served from the cache: the user has narrowed
\* both selections since the first run.
C2_Witness ==
    /\ uploaded_file = NoFile
    /\ status = Ok
    /\ cache # Unbound
    /\ df # Unbound
    /\ Len(df[1].rows) = 7
    /\ Cardinality(selected_hari[1]) = 1
    /\ Cardinality(selected_kategori[1]) = 1

\* Rows of the file whose field count differs from the header's.
Ragged(f) == \E i \in 1..Len(f.lines) : Len(f.lines[i]) # Len(f.header)

Malformed(f) == ~f.decodable \/ Len(f.header) = 0 \/ Ragged(f)

ParseFailures == {"UnicodeDecodeError", "EmptyDataError", "ParserError"}

NothingProduced ==
    /\ df = Unbound
    /\ filtered_df = Unbound
    /\ csv = Unbound
    /\ total_sales = Unbound
    /\ total_visitors = Unbound
    /\ avg_sales = Unbound
    /\ avg_visitors = Unbound
    /\ metrics = Unbound
    /\ pie_df = Unbound

\* C3 as claimed: every upload that is malformed (undecodable, empty, or
\* with lines of differing field counts) ends in a parse failure with no
\* dataset and nothing computed.
C3_Original ==
    (status # NotRun /\ uploaded_file # NoFile /\ Malformed(uploaded_file)) =>
        /\ status.exc \in ParseFailures
        /\ NothingProduced

\* The uploads read_csv rejects: undecodable bytes, no header, or a line
\* after the first data line with more fields than the header and the first
\* data line have.
Rejected(f) ==
    \/ ~f.decodable
    \/ Len(f.header) = 0
    \/ \E i \in 2..Len(f.lines) :
          Len(f.lines[i]) > Len(f.header) /\ Len(f.lines[i]) > Len(f.lines[1])

\* C3 amended: an upload is a parse failure exactly when read_csv rejects
\* it; then no dataset is bound and nothing is computed.  In no run with an
\* upload is the built-in table the dataset.  A line with fewer fields than
\* the header is read with missing values, not rejected.
C3_ParseFailure ==
    (status # NotRun /\ uploaded_file # NoFile) =>
        /\ Rejected(uploaded_file) <=> status.exc \in ParseFailures
        /\ status.exc \in ParseFailures => (status.line = 50 /\ NothingProduced)
        /\ df # Bound(SampleData)
        /\ ~Rejected(uploaded_file) =>
              /\ df # Unbound
              /\ df[1].columns = uploaded_file.header
              /\ Len(df[1].rows) = Len(uploaded_file.lines)

C3_Witness ==
    /\ uploaded_file # NoFile
    /\ status = Raised("ParserError", 50)
    /\ Len(uploaded_file.lines) = 2
    /\ NothingProduced

\* A file whose only defect is a short line, read without failure.
C3_ShortLineRead ==
    /\ uploaded_file # NoFile
    /\ status = Ok
    /\ \E i \in 1..Len(uploaded_file.lines) :
          Len(uploaded_file.lines[i]) < Len(uploaded_file.header)

RequiredColumns == {"Hari", "Penjualan", "Pengunjung"}

\* The filtered rows hold a missing day next to a day that is text.
MixedDays ==
    /\ \E i \in AdmittedIdx : df[1].rows[i]["Hari"] = NaN
    /\ \E i \in AdmittedIdx : df[1].rows[i]["Hari"] # NaN
    /\ \E i \in 1..Len(df[1].rows) :
          df[1].rows[i]["Hari"] # NaN /\ df[1].rows[i]["Hari"][1] \notin NumericTokens

Parsed == status # NotRun /\ uploaded_file # NoFile /\ status.exc \notin ParseFailures

C4_MissingColumn ==
    Parsed =>
        /\ ~(RequiredColumns \subseteq ColSet(df[1].columns)) =>
              /\ status.exc = "KeyError"
              /\ status.exc \notin ParseFailures
              /\ metrics = Unbound
              /\ total_visitors = Unbound
              /\ avg_sales = Unbound
              /\ avg_visitors = Unbound
              /\ pie_df = Unbound
        /\ (RequiredColumns \subseteq ColSet(df[1].columns)
            /\ ~HasColumn(df[1], "Kategori")) =>
              /\ status.exc \notin ParseFailures \cup {"KeyError"}
              /\ status = Ok <=> ~MixedDays
              /\ status # Ok => status = Raised("TypeError", 114)
              /\ status = Ok => w_kategori = NoState
              /\ selected_kategori = Bound({})
              /\ pie_df = Unbound
              /\ total_sales # Unbound
              /\ total_visitors # Unbound
              /\ avg_sales # Unbound
              /\ avg_visitors # Unbound
              /\ metrics # Unbound

C4_Witness ==
    /\ Parsed
    /\ status = Raised("KeyError", 89)
    /\ Len(df[1].rows) = 2
    /\ Len(filtered_df[1].rows) = 2
    /\ metrics = Unbound

\* The category column alone is missing and the summary is produced.
C4_NoCategoryRun ==
    /\ Parsed
    /\ status = Ok
    /\ ~HasColumn(df[1], "Kategori")
    /\ Len(filtered_df[1].rows) = 2
    /\ metrics # Unbound

\* C6 as claimed: with at least one filtered row each mean is the total
\* divided by the number of filtered rows; with none both means are nan and
\* the metrics are still rendered.
C6_Original ==
    (status # NotRun /\ avg_sales # Unbound /\ avg_visitors # Unbound) =>
        LET count == Len(filtered_df[1].rows)
        IN /\ count > 0 =>
                /\ ~is_nan(avg_sales[1])
                /\ ~is_nan(avg_visitors[1])
                /\ avg_sales[1].num * count = total_sales[1] * avg_sales[1].den
                /\ avg_visitors[1].num * count = total_visitors[1] * avg_visitors[1].den
           /\ count = 0 =>
                /\ is_nan(avg_sales[1])
                /\ is_nan(avg_visitors[1])
                /\ metrics # Unbound

\* Number of admitted rows with a value in column c.
ValueCount(c) == Cardinality({i \in AdmittedIdx : df[1].rows[i][c] # NaN})

MeanIs(m, total, n) ==
    IF n = 0 THEN is_nan(m) ELSE ~is_nan(m) /\ m.num * n = total * m.den

\* C6 amended: each mean is the total divided by the number of filtered rows
\* that have a value in that column; when there is no such row, in
\* particular when no row is filtered, the mean is nan, it is formatted as
\* "nan" and the metrics are rendered without an exception.
C6_Means ==
    (status # NotRun /\ avg_sales # Unbound /\ avg_visitors # Unbound) =>
        /\ MeanIs(avg_sales[1], total_sales[1], ValueCount("Penjualan"))
        /\ MeanIs(avg_visitors[1], total_visitors[1], ValueCount("Pengunjung"))
        /\ status.line \notin 89..98
        /\ metrics # Unbound
        /\ metrics[1][3].nan <=> ValueCount("Penjualan") = 0
        /\ metrics[1][4].nan <=> ValueCount("Pengunjung") = 0
        /\ AdmittedIdx = {} => (metrics[1][3].nan /\ metrics[1][4].nan)

\* Two filtered rows, one without a sales value: the mean is over one row.
C6_Witness ==
    /\ avg_sales # Unbound
    /\ Len(filtered_df[1].rows) = 2
    /\ ValueCount("Penjualan") = 1
    /\ avg_sales[1].den = 1
    /\ avg_sales[1].num = total_sales[1]

\* No day selected: no filtered row, totals 0, means nan.
C6_EmptySelection ==
    /\ avg_sales # Unbound
    /\ Len(df[1].rows) > 0
    /\ selected_hari = Bound({})
    /\ Len(filtered_df[1].rows) = 0
    /\ total_sales = Bound(0)
    /\ is_nan(avg_sales[1])
    /\ metrics # Unbound
    /\ metrics[1][3].nan

\* Indices of the filtered rows whose category is the text k.
RowsOfCategory(k) ==
    {i \in 1..Len(filtered_df[1].rows) : filtered_df[1].rows[i]["Kategori"] = Val(k)}

FilteredCategories ==
    {filtered_df[1].rows[i]["Kategori"][1] :
        i \in {j \in 1..Len(filtered_df[1].rows) : filtered_df[1].rows[j]["Kategori"] # NaN}}

RECURSIVE SumTotals(_)
SumTotals(g) == IF Len(g) = 0 THEN 0 ELSE g[1].total + SumTotals(Tail(g))

\* C7: the group-by result has one entry for each category value that
\* occurs in the filtered rows and no other; its total is the sales sum of
\* the filtered rows of that category; when every filtered row has a
\* category the group totals add up to the sales total.
C7_GroupBy ==
    pie_df # Unbound =>
        LET g == pie_df[1]
            all == 1..Len(filtered_df[1].rows)
        IN /\ {g[n].key : n \in 1..Len(g)} = FilteredCategories
           /\ Len(g) = Cardinality(FilteredCategories)
           /\ \A n \in 1..Len(g) :
                 g[n].total = SumOver(filtered_df[1].rows, RowsOfCategory(g[n].key), "Penjualan")
           /\ (\A i \in all : filtered_df[1].rows[i]["Kategori"] # NaN) =>
                 SumTotals(g) = total_sales[1]

\* Two groups over an upload, every filtered row with a category.
C7_Witness ==
    /\ pie_df # Unbound
    /\ uploaded_file # NoFile
    /\ Len(pie_df[1]) = 2
    /\ Len(filtered_df[1].rows) = 2
    /\ SumTotals(pie_df[1]) = total_sales[1]
    /\ total_sales[1] > 0

\* A filtered row without a category: it is in no group.
C7_NullCategory ==
    /\ pie_df # Unbound
    /\ Len(filtered_df[1].rows) = 2
    /\ Len(pie_df[1]) = 1
    /\ SumTotals(pie_df[1]) < total_sales[1]

\* Position of the first filtered row of category k.
FirstRow(k) == CHOOSE i \in RowsOfCategory(k) : \A j \in RowsOfCategory(k) : i <= j

\* C8 as claimed: the group keys are in the order in which the categories
\* first occur in the filtered rows.
C8_Original ==
    pie_df # Unbound =>
        \A m, n \in 1..Len(pie_df[1]) :
            FirstRow(pie_df[1][m].key) < FirstRow(pie_df[1][n].key) => m < n

\* C8 amended: the group keys are sorted ascending by key, whatever the
\* order of the filtered rows: on the sample with days Selasa and Rabu the
\* keys are Makanan, Minuman although Minuman occurs first.
C8_SortedKeys ==
    pie_df # Unbound =>
        /\ \A m, n \in 1..Len(pie_df[1]) :
              m < n => Rank(pie_df[1][m].key) < Rank(pie_df[1][n].key)
        /\ (uploaded_file = NoFile /\ selected_hari[1] = {Val("Selasa"), Val("Rabu")}
            /\ Len(filtered_df[1].rows) = 2) =>
              [n \in 1..Len(pie_df[1]) |-> pie_df[1][n].key] = <<"Makanan", "Minuman">>

C8_Witness ==
    /\ pie_df # Unbound
    /\ uploaded_file = NoFile
    /\ selected_hari[1] = {Val("Selasa"), Val("Rabu")}
    /\ Len(filtered_df[1].rows) = 2
    /\ filtered_df[1].rows[1]["Kategori"] = Val("Minuman")
    /\ pie_df[1][1].key = "Makanan"

\* The variables of a run of the script started from nothing but the
\* current file and the current widget values.
FreshRun == Script(uploaded_file, Unbound, w_hari, w_kategori)

\* The dataset the current file resolves to.
Resolved ==
    IF uploaded_file = NoFile THEN Bound(SampleData)
    ELSE IF Rejected(uploaded_file) THEN Unbound
    ELSE Bound(read_csv(uploaded_file))

RunFromCurrentInputs ==
    status # NotRun =>
        /\ df = Resolved
        /\ outputs = <<FreshRun.status, FreshRun.df, FreshRun.selected_hari,
                       FreshRun.selected_kategori, FreshRun.filtered_df, FreshRun.csv,
                       FreshRun.total_sales, FreshRun.total_visitors, FreshRun.avg_sales,
                       FreshRun.avg_visitors, FreshRun.metrics, FreshRun.pie_df>>
        /\ filtered_df # Unbound =>
              /\ filtered_df = Bound(ApplyFilter(Resolved[1], selected_hari[1], selected_kategori[1]))
              /\ csv = Bound(to_csv(filtered_df[1], Resolved[1]))

\* A run that changes only a selection, or nothing, leaves the dataset as it
\* was.
DatasetUntouched ==
    (status # NotRun /\ uploaded_file' = uploaded_file) => df' = df

\* C9: after any sequence of interactions the dataset is the one the
\* current file resolves to, unmodified, and the filtered rows, the export
\* and the summary are those of the pipeline applied to the current dataset
\* and the current selection alone: a run from scratch gives the same.
C9_NothingRetained == []RunFromCurrentInputs /\ [][DatasetUntouched]_vars

\* A later run of a session: the cache is filled, a file is uploaded and
\* the user has narrowed both selections.
C9_Witness ==
    /\ status = Ok
    /\ uploaded_file # NoFile
    /\ cache # Unbound
    /\ Len(df[1].rows) = 2
    /\ Cardinality(selected_hari[1]) = 1
    /\ Cardinality(selected_kategori[1]) = 1
    /\ Len(filtered_df[1].rows) = 1

DistinctOf(c) == {df[1].rows[i][c] : i \in 1..Len(df[1].rows)}

SelectionsWithinData ==
    selected_hari # Unbound =>
        /\ selected_hari[1] \subseteq DistinctOf("Hari")
        /\ HasColumn(df[1], "Kategori") => selected_kategori[1] \subseteq DistinctOf("Kategori")
        /\ (selected_hari[1] = {}
            \/ (HasColumn(df[1], "Kategori") /\ selected_kategori[1] = {})) =>
              Len(filtered_df[1].rows) = 0

\* A step after which a multiselect shows options the store held no state for:
\* it returns its default, all of them.
FreshWidgetsDefault ==
    /\ (HariOnPage' /\ ~Stored(w_hari, HariOptions')) =>
          selected_hari'[1] = SeqSet(HariOptions')
    /\ (KategoriOnPage' /\ ~Stored(w_kategori, KategoriOptions')) =>
          selected_kategori'[1] = SeqSet(KategoriOptions')
    /\ (status = NotRun /\ selected_hari' # Unbound) =>
          /\ selected_hari'[1] = {df'[1].rows[i]["Hari"] : i \in 1..Len(df'[1].rows)}
          /\ filtered_df'[1].rows = df'[1].rows

\* C10: in every run each selection is a subset of the distinct values of
\* its column in the current dataset, also right after the dataset changed;
\* an empty day selection, or an empty category selection when the column
\* exists, leaves no filtered row; a widget that is new starts with all
\* values selected, so the first run filters nothing out.
C10_Selections == []SelectionsWithinData /\ [][FreshWidgetsDefault]_vars

\* An upload whose days are those of the previous dataset: the narrowed day
\* selection is still in force.
C10_Witness ==
    /\ uploaded_file # NoFile
    /\ status = Ok
    /\ Len(df[1].rows) = 2
    /\ HasColumn(df[1], "Kategori")
    /\ Cardinality(DistinctOf("Hari")) = 2
    /\ Cardinality(selected_hari[1]) = 1
    /\ selected_kategori[1] = DistinctOf("Kategori")
    /\ Len(filtered_df[1].rows) = 1

\* A run that stopped on an exception removes no stored widget state: every
\* entry is still stored, or it belongs to a widget the run rendered.
FailedRunKeepsState ==
    (status' \notin {Ok, NotRun}) =>
        /\ \A e \in w_hari : e \in w_hari' \/ (HariOnPage' /\ e.options = HariOptions')
        /\ \A e \in w_kategori :
              e \in w_kategori' \/ (KategoriOnPage' /\ e.options = KategoriOptions')

KeepsStateOverFailures == [][FailedRunKeepsState]_vars

\* The selections made on the sample come back when a file whose run the
\* line chart stopped is removed.
SelectionsComeBack ==
    (status = Raised("TypeError", 114) /\ uploaded_file' = NoFile
     /\ Stored(w_hari, unique(Col(SampleData, "Hari")))
     /\ Stored(w_kategori, unique(Col(SampleData, "Kategori")))) =>
        /\ selected_hari' = Bound(multiselect(w_hari, unique(Col(SampleData, "Hari"))))
        /\ selected_kategori' =
              Bound(multiselect(w_kategori, unique(Col(SampleData, "Kategori"))))

ComeBackAfterFailure == [][SelectionsComeBack]_vars

\* A stopped run with the sample's narrowed selections still stored.
KeptOverFailedRun ==
    /\ status = Raised("TypeError", 114)
    /\ [options |-> unique(Col(SampleData, "Hari")), value |-> {Val("Senin")}] \in w_hari
    /\ [options |-> unique(Col(SampleData, "Kategori")), value |-> {Val("Makanan")}]
          \in w_kategori

\* A run that the line chart stops: the metrics are rendered, pie_df is not
\* assigned.
ChartStopsRun ==
    /\ status = Raised("TypeError", 114)
    /\ metrics # Unbound
    /\ pie_df = Unbound

\* A run that the pie chart stops: the only group has a total of 0.
PieStopsRun ==
    /\ status = Raised("ValueError", 141)
    /\ pie_df # Unbound
    /\ Len(pie_df[1]) = 1

====
